---- MODULE Spec2Model ----
(***************************************************************************)
(* Model of the reactive hard-sphere simulator:                            *)
(*   src/runtime_config.py  RuntimeConfig, the reaction compiler            *)
(*   src/physics_engine.py  the numba kernels of one step                   *)
(*   src/server.py          PhysicsEngineAdapter, the worker and handlers   *)
(*                                                                         *)
(* Numbers.  float64 quantities are held in fixed point.  Lengths are in   *)
(* units of 1/400 (box_size 17.5 is 7000, slice_thickness 4.375 is 1750);  *)
(* a velocity is the displacement of one step (vel * dt) in that unit;     *)
(* mass is 1 and an energy is m * v * v / 2 in those units; temperature    *)
(* is in the unit that makes 3 * k_B equal to 1.  math.sqrt is the integer *)
(* square root and a product with a fraction truncates toward zero.        *)
(*                                                                         *)
(* Geometry.  Particles are seeded on the line y = z = 0 and the random    *)
(* decay direction is drawn from the two directions of the x axis, so      *)
(* they stay on that line; the cell index and the 27-neighbour scan are    *)
(* the three-dimensional ones of the code.                                 *)
(***************************************************************************)
EXTENDS Integers, Sequences, FiniteSets, TLC

\* ------------------------------------------------------------------ bounds
NMax == 3        \* max_particles of the modelled pool
MaxSteps == 2    \* update() calls explored by the engine specification
MaxCalls == 3    \* events handled by the server specification
MaxTime == 5     \* sim_time (in steps) up to which the worker starts a batch
MaxOps == 3      \* calls of update, reset, retarget and update_box_size on the adapter alone

\* ------------------------------------------------------- program constants
MASS == 1                \* RuntimeConfig.mass
KB3 == 1                 \* 3 * boltzmann_k in the model's temperature unit
MAX_SUBSTANCES == 5
MAX_REACTIONS == 3
BOX_SIZE_MIN == 4000     \* 10.0
BOX_SIZE_MAX == 16000    \* 40.0
DEFAULT_RADIUS == 60     \* 0.15
DEFAULT_EA == 30
SCALE_MIN == 99          \* thermostat clamp 0.99, in percent
SCALE_MAX == 101         \* thermostat clamp 1.01, in percent
STEPS_PER_FRAME == 10

Slots == 0 .. (NMax - 1)

\* ------------------------------------------------------------------ helpers
Max2(a, b) == IF a >= b THEN a ELSE b
Min2(a, b) == IF a <= b THEN a ELSE b
Abs(a) == IF a >= 0 THEN a ELSE -a
Sign(a) == IF a > 0 THEN 1 ELSE IF a < 0 THEN -1 ELSE 0

\* x * num / den in fixed point: truncation toward zero
MulDiv(x, num, den) ==
  IF x * num >= 0 THEN (x * num) \div den ELSE -((-(x * num)) \div den)

\* math.sqrt
RECURSIVE SqrtBetween(_, _, _)
SqrtBetween(n, lo, hi) ==
  IF lo >= hi THEN lo
  ELSE LET mid == (lo + hi + 1) \div 2
       IN IF mid * mid <= n THEN SqrtBetween(n, mid, hi) ELSE SqrtBetween(n, lo, mid - 1)

ISqrt(n) == SqrtBetween(n, 0, IF n < 40000 THEN n ELSE 40000)

RECURSIVE SumSeq(_)
SumSeq(s) == IF Len(s) = 0 THEN 0 ELSE Head(s) + SumSeq(Tail(s))

RECURSIVE SumOver(_, _)
SumOver(S, f) ==
  IF S = {} THEN 0
  ELSE LET x == CHOOSE y \in S : TRUE IN f[x] + SumOver(S \ {x}, f)

RECURSIVE Flatten(_)
Flatten(ss) == IF Len(ss) = 0 THEN <<>> ELSE Head(ss) \o Flatten(Tail(ss))

Range(s) == {s[k] : k \in 1 .. Len(s)}

\* ------------------------------------------------- reaction equation parser
\* An equation is a sequence of characters; "rarrow" and "harpoon" stand for
\* the two Unicode arrows the parser accepts.
Digits == {"0", "1", "2", "3"}
Letters == {"A", "B", "C"}

Upper(c) == IF c = "a" THEN "A" ELSE IF c = "b" THEN "B" ELSE IF c = "c" THEN "C" ELSE c

DigitVal(c) == IF c = "0" THEN 0 ELSE IF c = "1" THEN 1 ELSE IF c = "2" THEN 2 ELSE 3

RECURSIVE ReplaceAsciiArrow(_)
ReplaceAsciiArrow(s) ==
  IF Len(s) = 0 THEN <<>>
  ELSE IF Len(s) >= 2 /\ s[1] = "-" /\ s[2] = ">"
       THEN <<"=">> \o ReplaceAsciiArrow(SubSeq(s, 3, Len(s)))
       ELSE <<s[1]>> \o ReplaceAsciiArrow(Tail(s))

NormalizeEquation(equation) ==
  LET noSpace == SelectSeq(equation, LAMBDA c : c # " ")
      uni == [k \in 1 .. Len(noSpace) |->
                IF noSpace[k] \in {"rarrow", "harpoon"} THEN "=" ELSE noSpace[k]]
      ascii == ReplaceAsciiArrow(uni)
  IN [k \in 1 .. Len(ascii) |-> Upper(ascii[k])]

\* str.split(sep): the pieces between the separators, empty pieces kept
RECURSIVE SplitAt(_, _, _)
SplitAt(s, sep, cur) ==
  IF Len(s) = 0 THEN <<cur>>
  ELSE IF s[1] = sep THEN <<cur>> \o SplitAt(Tail(s), sep, <<>>)
       ELSE SplitAt(Tail(s), sep, Append(cur, s[1]))

Split(s, sep) == SplitAt(s, sep, <<>>)

RECURSIVE IntOf(_, _)
IntOf(ds, acc) == IF Len(ds) = 0 THEN acc ELSE IntOf(Tail(ds), 10 * acc + DigitVal(Head(ds)))

Repeat(x, n) == [k \in 1 .. n |-> x]

\* one term, matched against ^(\d*)([A-Z]+)$ and looked up in id_to_type
ParseTerm(term, substances) ==
  LET nd == IF \E k \in 1 .. Len(term) : term[k] \notin Digits
            THEN (CHOOSE k \in 1 .. Len(term) :
                    term[k] \notin Digits /\ \A h \in 1 .. (k - 1) : term[h] \in Digits) - 1
            ELSE Len(term)
      name == SubSeq(term, nd + 1, Len(term))
      coeff == IF nd = 0 THEN 1 ELSE IntOf(SubSeq(term, 1, nd), 0)
      known == {k \in 1 .. Len(substances) :
                  Len(name) = 1 /\ Upper(substances[k].id) = name[1]}
  IN IF Len(term) = 0 \/ Len(name) = 0 \/ \E k \in 1 .. Len(name) : name[k] \notin Letters
     THEN [ok |-> FALSE, val |-> <<>>]
     ELSE IF known = {} THEN [ok |-> FALSE, val |-> <<>>]
     \* a dict keeps the last entry of a repeated key
     ELSE [ok |-> TRUE,
           val |-> Repeat(substances[CHOOSE k \in known : \A h \in known : h <= k].type_id, coeff)]

ParseSide(side, substances) ==
  LET terms == Split(side, "+")
      parsed == [k \in 1 .. Len(terms) |-> ParseTerm(terms[k], substances)]
  IN IF Len(side) = 0 \/ \E k \in 1 .. Len(parsed) : ~parsed[k].ok
     THEN [ok |-> FALSE, val |-> <<>>]
     ELSE [ok |-> TRUE, val |-> Flatten([k \in 1 .. Len(parsed) |-> parsed[k].val])]

\* ReactionConfig.is_valid
IsValid(rxn) ==
  /\ 1 <= Len(rxn.reactant_types) /\ Len(rxn.reactant_types) <= 2
  /\ 1 <= Len(rxn.product_types) /\ Len(rxn.product_types) <= 2
  /\ ~(rxn.ea_forward < 0 \/ rxn.ea_reverse < 0)

IsFirstOrder(rxn) == Len(rxn.reactant_types) = 1
IsSecondOrder(rxn) == Len(rxn.reactant_types) = 2

\* parse_reaction_equation: [ok |-> FALSE] is None
ParseReactionEquation(equation, substances) ==
  LET eq == NormalizeEquation(equation)
      parts == Split(eq, "=")
      left == ParseSide(parts[1], substances)
      right == ParseSide(parts[2], substances)
      config == [equation |-> equation, reactant_types |-> left.val,
                 product_types |-> right.val, ea_forward |-> DEFAULT_EA,
                 ea_reverse |-> DEFAULT_EA, frequency_factor |-> 1]
      none == [ok |-> FALSE, val |-> <<>>]
  IN IF "=" \notin Range(eq) THEN none
     ELSE IF Len(parts) # 2 THEN none
     ELSE IF ~left.ok \/ ~right.ok THEN none
     ELSE IF IsValid(config) THEN [ok |-> TRUE, val |-> config] ELSE none


\* ---------------------------------------------------------------- variables
VARIABLES
  \* RuntimeConfig (src/runtime_config.py)
  temperature, use_thermostat, substances, reactions, properties_locked,
  box_size, slice_thickness,
  \* PhysicsEngineAdapter (src/server.py); physics_engine is "None" or "Adapter"
  physics_engine, types, pos, vel, sim_time, active_count, eng_box_size,
  cell_divs, head, next_particle, reactions_2body, reactions_1body, radii,
  \* position inside update(): pc is "idle" between calls, "resolve" inside
  \* resolve_collisions_generic, "decay" inside process_1body_reactions;
  \* tk, tph, tloc are the cell tasks' positions and locals, di the decay index
  pc, tk, tph, tloc, di,
  \* server globals (src/server.py): the run flag, the holder of
  \* simulation_lock ("free", "worker" or "handler"), the worker's position in
  \* simulation_loop and its step inside a batch, the position of the event
  \* handler in flight, its payload, and the number of events handled
  simulation_running, lock, wpc, wstep, hpc, arg, calls,
  \* history: what the last operation was and what it started from
  last, visits, writers, exchanged, snap, dec

cfgVars == <<temperature, use_thermostat, substances, reactions, properties_locked,
             box_size, slice_thickness>>
poolVars == <<types, pos, vel>>
engVars == <<physics_engine, types, pos, vel, sim_time, active_count, eng_box_size,
             cell_divs, head, next_particle, reactions_2body, reactions_1body, radii>>
stepVars == <<pc, tk, tph, tloc, di>>
srvVars == <<simulation_running, lock, wpc, wstep, hpc, arg, calls>>
histVars == <<last, visits, writers, exchanged, snap, dec>>
vars == <<cfgVars, engVars, stepVars, srvVars, histVars>>

\* the RuntimeConfig object as one value
Config ==
  [temperature |-> temperature, use_thermostat |-> use_thermostat,
   substances |-> substances, reactions |-> reactions,
   properties_locked |-> properties_locked, box_size |-> box_size,
   slice_thickness |-> slice_thickness]

\* --------------------------------------------------------- reaction compiler
\* RuntimeConfig.get_total_initial_particles
TotalInitialParticles(subs) ==
  SumSeq([k \in 1 .. Len(subs) |-> subs[k].initial_count])

\* RuntimeConfig.build_radii_array
BuildRadiiArray(subs) ==
  [t \in 0 .. (MAX_SUBSTANCES - 1) |->
     LET ks == {k \in 1 .. Len(subs) : subs[k].type_id = t}
     IN IF ks = {} THEN 0
        ELSE subs[CHOOSE k \in ks : \A h \in ks : h <= k].radius]

\* RuntimeConfig.compute_collision_frequency: A = sigma * v_rel / 2 is a
\* function of the radius and of the temperature at the time of the build
CollisionFrequency(radius, temp) == [src |-> "collision", a |-> 0, radius |-> radius, temp |-> temp]
GivenFrequency(a) == [src |-> "given", a |-> a, radius |-> 0, temp |-> 0]

Row2(r0, r1, p0, p1, ef, er) ==
  [r0 |-> r0, r1 |-> r1, p0 |-> p0, p1 |-> p1, ea_forward |-> ef, ea_reverse |-> er]

\* the row of a two-product reaction once more, nothing swapped
ForwardAgain(rxn) ==
  Row2(rxn.reactant_types[1], rxn.reactant_types[2],
       rxn.product_types[1], rxn.product_types[2], rxn.ea_forward, rxn.ea_reverse)

\* the reverse of a two-product reaction: reactants and products swapped,
\* the two activation energies swapped
ReverseRow2(rxn) ==
  Row2(rxn.product_types[1], rxn.product_types[2],
       rxn.reactant_types[1], rxn.reactant_types[2], rxn.ea_reverse, rxn.ea_forward)

\* RuntimeConfig.build_reactions_2body
BuildReactions2Body(rxns) ==
  Flatten([k \in 1 .. Len(rxns) |->
    LET rxn == rxns[k]
        p1 == IF Len(rxn.product_types) > 1 THEN rxn.product_types[2] ELSE -1
        fwd == Row2(rxn.reactant_types[1], rxn.reactant_types[2],
                    rxn.product_types[1], p1, rxn.ea_forward, rxn.ea_reverse)
    IN IF IsValid(rxn) /\ IsSecondOrder(rxn)
       THEN IF Len(rxn.product_types) = 2 THEN <<fwd, ReverseRow2(rxn)>> ELSE <<fwd>>
       ELSE <<>>])

Row1(r, p0, p1, ea, freq, q) ==
  [reactant |-> r, p0 |-> p0, p1 |-> p1, ea |-> ea, freq |-> freq, q |-> q]

\* the first-order reverse derived from a second-order reaction with one product
DerivedRow1(rxn, typical_radius, temp) ==
  Row1(rxn.product_types[1], rxn.reactant_types[1],
       IF Len(rxn.reactant_types) > 1 THEN rxn.reactant_types[2] ELSE -1,
       rxn.ea_reverse, CollisionFrequency(typical_radius, temp),
       rxn.ea_forward - rxn.ea_reverse)

\* RuntimeConfig.build_reactions_1body
BuildReactions1Body(rxns, subs, temp) ==
  LET typical_radius == IF Len(subs) > 0 THEN subs[1].radius ELSE DEFAULT_RADIUS
      first == Flatten([k \in 1 .. Len(rxns) |->
        LET rxn == rxns[k]
            p1 == IF Len(rxn.product_types) > 1 THEN rxn.product_types[2] ELSE -1
            q == rxn.ea_reverse - rxn.ea_forward
            fwd == Row1(rxn.reactant_types[1], rxn.product_types[1], p1, rxn.ea_forward,
                        GivenFrequency(rxn.frequency_factor), q)
            rev == Row1(rxn.product_types[1], rxn.reactant_types[1], -1, rxn.ea_reverse,
                        GivenFrequency(rxn.frequency_factor), -q)
        IN IF IsValid(rxn) /\ IsFirstOrder(rxn)
           THEN IF Len(rxn.product_types) = 1 THEN <<fwd, rev>> ELSE <<fwd>>
           ELSE <<>>])
      second == Flatten([k \in 1 .. Len(rxns) |->
        LET rxn == rxns[k]
        IN IF IsValid(rxn) /\ IsSecondOrder(rxn) /\ Len(rxn.product_types) = 1
           THEN <<DerivedRow1(rxn, typical_radius, temp)>>
           ELSE <<>>])
  IN first \o second

\* ------------------------------------------------- RuntimeConfig.update_from_dict
HasKey(d, k) == k \in DOMAIN d

DefaultId(i) == IF i = 0 THEN "A" ELSE IF i = 1 THEN "B" ELSE IF i = 2 THEN "C"
                ELSE IF i = 3 THEN "D" ELSE "E"

\* data["substances"][:MAX_SUBSTANCES], each made a SubstanceConfig with
\* type_id its index; nothing is validated
NewSubstances(sds) ==
  [k \in 1 .. Min2(Len(sds), MAX_SUBSTANCES) |->
     [id |-> IF HasKey(sds[k], "id") THEN sds[k].id ELSE DefaultId(k - 1),
      type_id |-> k - 1,
      radius |-> IF HasKey(sds[k], "radius") THEN sds[k].radius ELSE DEFAULT_RADIUS,
      initial_count |-> IF HasKey(sds[k], "initialCount") THEN sds[k].initialCount ELSE 0]]

\* data["reactions"][:MAX_REACTIONS]: an item without an equation, or whose
\* equation does not parse, is skipped; the energies are set after the parse
NewReactions(rds, subs) ==
  Flatten([k \in 1 .. Min2(Len(rds), MAX_REACTIONS) |->
    LET rd == rds[k]
        parsed == ParseReactionEquation(rd.equation, subs)
    IN IF HasKey(rd, "equation") /\ parsed.ok
       THEN <<[parsed.val EXCEPT
                 !.ea_forward = IF HasKey(rd, "eaForward") THEN rd.eaForward ELSE DEFAULT_EA,
                 !.ea_reverse = IF HasKey(rd, "eaReverse") THEN rd.eaReverse ELSE DEFAULT_EA,
                 !.frequency_factor =
                    IF HasKey(rd, "frequencyFactor") THEN rd.frequencyFactor ELSE 1]>>
       ELSE <<>>])

\* whether the payload's boxSize is applied
BoxSizeApplies(c, data) == ~c.properties_locked /\ HasKey(data, "boxSize")

\* whether the payload's sliceThickness is applied
SliceThicknessApplies(c, data) == HasKey(data, "sliceThickness")

\* a configuration that takes substances and reactions whatever the lock
AppliesWhateverLock(c, data) == TRUE

\* whether the payload's substances and reactions are applied
PropertiesApply(c, data) == ~c.properties_locked

\* the configuration after update_from_dict(data) on configuration c
UpdateFromDict(c, data) ==
  LET subs == IF PropertiesApply(c, data) /\ HasKey(data, "substances")
              THEN NewSubstances(data.substances) ELSE c.substances
      rxns == IF PropertiesApply(c, data) /\ HasKey(data, "reactions")
              THEN NewReactions(data.reactions, subs) ELSE c.reactions
      new_box == Max2(BOX_SIZE_MIN, Min2(BOX_SIZE_MAX, data.boxSize))
  IN [temperature |-> IF HasKey(data, "temperature") THEN data.temperature ELSE c.temperature,
      use_thermostat |-> IF HasKey(data, "useThermostat") THEN data.useThermostat
                         ELSE c.use_thermostat,
      substances |-> subs,
      reactions |-> rxns,
      properties_locked |-> c.properties_locked,
      box_size |-> IF BoxSizeApplies(c, data) THEN new_box ELSE c.box_size,
      slice_thickness |->
        IF BoxSizeApplies(c, data) THEN MulDiv(new_box, 1, 4)
        ELSE IF SliceThicknessApplies(c, data) THEN data.sliceThickness
        ELSE c.slice_thickness]

SetConfig(c) ==
  /\ temperature' = c.temperature
  /\ use_thermostat' = c.use_thermostat
  /\ substances' = c.substances
  /\ reactions' = c.reactions
  /\ properties_locked' = c.properties_locked
  /\ box_size' = c.box_size
  /\ slice_thickness' = c.slice_thickness


\* ------------------------------------------- PhysicsEngineAdapter: construction
\* max(self.radii) if it is positive, else 0.15
MaxRadius(rad) ==
  LET m == CHOOSE x \in {rad[t] : t \in DOMAIN rad} : \A t \in DOMAIN rad : rad[t] <= x
  IN IF m > 0 THEN m ELSE DEFAULT_RADIUS

\* int(box_size // (max_radius * 3.0)), at least 1
CellDivs(L, rad) == Max2(1, L \div (MaxRadius(rad) * 3))

NumCells(M) == M * M * M

\* a pool in which nothing is seeded
EmptyPool(subs) == [i \in Slots |-> -1]

\* _init_particles: the type of every slot; the substances fill the pool in
\* order and seeding stops when the pool is full
InitTypes(subs) ==
  LET seq == Flatten([k \in 1 .. Len(subs) |-> Repeat(subs[k].type_id, subs[k].initial_count)])
  IN [i \in Slots |-> IF i < Len(seq) THEN seq[i + 1] ELSE -1]

\* the number of seeded slots (offset at the end of _init_particles)
SeededCount(subs) == Min2(NMax, Max2(0, TotalInitialParticles(subs)))

\* the random draws of _init_particles: uniform positions in [0, L), normal
\* velocities with the mean of the seeded slots subtracted
PosChoices(L) == {x \in {2000, 3000, 4000} : x < L}
VelChoices == {-100, 0, 100}

Seeds(subs, L) ==
  LET k == SeededCount(subs)
  IN {sd \in [pos : [Slots -> PosChoices(L) \cup {0}], vel : [Slots -> VelChoices]] :
        /\ \A i \in Slots : i >= k => (sd.pos[i] = 0 /\ sd.vel[i] = 0)
        /\ \A i \in Slots : i < k => sd.pos[i] # 0
        /\ \A i, j \in Slots : (i < j /\ j < k) => sd.pos[i] # sd.pos[j]
        /\ SumOver(Slots, sd.vel) = 0}

\* the adapter built from configuration c with the random draws sd
EngineOf(c, sd) ==
  LET rad == BuildRadiiArray(c.substances)
      M == CellDivs(c.box_size, rad)
  IN [types |-> InitTypes(c.substances), pos |-> sd.pos, vel |-> sd.vel,
      sim_time |-> 0,
      active_count |-> TotalInitialParticles(c.substances),
      eng_box_size |-> c.box_size,
      cell_divs |-> M,
      head |-> [k \in 0 .. (NumCells(M) - 1) |-> -1],
      next_particle |-> [i \in Slots |-> -1],
      reactions_2body |-> BuildReactions2Body(c.reactions),
      reactions_1body |-> BuildReactions1Body(c.reactions, c.substances, c.temperature),
      radii |-> rad]

\* ------------------------------------------------------- kernels of one step
ActiveSlots(ty) == {i \in Slots : ty[i] >= 0}

\* the square root of target_temp / current_temp in percent, without a clamp
UnclampedScale(target, v_sq_sum, n_active) ==
  ISqrt((10000 * target * n_active * KB3) \div (MASS * v_sq_sum))

\* the scale factor of apply_thermostat_numba in percent:
\* sqrt(target_temp / current_temp) clamped to [0.99, 1.01], where
\* current_temp = mass * v_sq_sum / (3 * n_active * k_B)
ThermostatScale(target, v_sq_sum, n_active) ==
  LET s == ISqrt((10000 * target * n_active * KB3) \div (MASS * v_sq_sum))
  IN IF s < SCALE_MIN THEN SCALE_MIN ELSE IF s > SCALE_MAX THEN SCALE_MAX ELSE s

\* apply_thermostat_numba: the velocities after it
ApplyThermostat(v, ty, target, enabled) ==
  LET act == ActiveSlots(ty)
      v_sq_sum == SumOver(act, [i \in Slots |-> v[i] * v[i]])
  IN IF act = {} THEN v
     ELSE IF enabled /\ MASS * v_sq_sum > 0
          THEN LET scale == ThermostatScale(target, v_sq_sum, Cardinality(act))
               IN [i \in Slots |-> IF ty[i] >= 0 THEN MulDiv(v[i], scale, 100) ELSE v[i]]
          ELSE v

\* a drift without the wrap
DriftOnly(p, v, L) == [i \in Slots |-> p[i] + v[i]]

\* update_positions_numba: every slot drifts and is wrapped
UpdatePositions(p, v, L) == [i \in Slots |-> (p[i] + v[i]) % L]

\* int(pos / cell_size) with cell_size = box_size / cell_divisions, clamped
CellCoord(x, L, M) ==
  LET c == (x * M) \div L
  IN IF c >= M THEN M - 1 ELSE IF c < 0 THEN 0 ELSE c

CellIdx(cx, cy, cz, M) == cx + cy * M + cz * M * M

\* the cell of slot i: its y and z coordinates are 0
CellOf(x, L, M) == CellIdx(CellCoord(x, L, M), CellCoord(0, L, M), CellCoord(0, L, M), M)

\* build_cell_list: the loop over the slots, from slot i on
RECURSIVE BuildLoop(_, _, _, _, _, _, _)
BuildLoop(i, h, nx, p, ty, L, M) ==
  IF i = NMax THEN [head |-> h, next |-> nx]
  ELSE IF ty[i] < 0 THEN BuildLoop(i + 1, h, nx, p, ty, L, M)
  ELSE LET c == CellOf(p[i], L, M)
       IN BuildLoop(i + 1, [h EXCEPT ![c] = i], [nx EXCEPT ![i] = h[c]], p, ty, L, M)

BuildCellList(p, ty, L, M, h, nx) ==
  BuildLoop(0, [k \in DOMAIN h |-> -1], [i \in DOMAIN nx |-> -1], p, ty, L, M)


\* ----------------------------------------------- resolve_collisions_generic
\* the slots linked from slot i on: i, next[i], next[next[i]], ...
RECURSIVE ChainFrom(_, _)
ChainFrom(i, nx) == IF i = -1 THEN <<>> ELSE <<i>> \o ChainFrom(nx[i], nx)

\* the 27 offsets (ox, oy, oz) in the order of the three nested loops
Offsets ==
  [k \in 1 .. 27 |-> <<((k - 1) \div 9) - 1, (((k - 1) \div 3) % 3) - 1, ((k - 1) % 3) - 1>>]

\* the neighbour cell of cell c at offset off, wrapped
NeighbourCell(c, off, M) ==
  LET cx == c % M
      cy == (c \div M) % M
      cz == c \div (M * M)
  IN CellIdx((cx + off[1] + M) % M, (cy + off[2] + M) % M, (cz + off[3] + M) % M, M)

\* whether the pair filter lets (i, j) through
PairFilter(i, j) == i < j

\* the pairs (i, j) that the task of cell c lets through the filter, in the
\* order of its loops: i along the cell's list, the 27 offsets, j along the
\* neighbour's list
VisitSeq(c, h, nx, M) ==
  LET own == ChainFrom(h[c], nx)
  IN Flatten([a \in 1 .. Len(own) |->
       Flatten([k \in 1 .. 27 |->
         LET nb == ChainFrom(h[NeighbourCell(c, Offsets[k], M)], nx)
             js == SelectSeq(nb, LAMBDA j : PairFilter(own[a], j))
         IN [b \in 1 .. Len(js) |-> <<own[a], js[b]>>]])])

\* get_pbc_dist on the x axis: the minimum-image displacement
PbcDx(pi, pj, L) ==
  LET dx == pi - pj
  IN IF 2 * dx > L THEN dx - L ELSE IF 2 * dx < -L THEN dx + L ELSE dx

\* the contact test: 1e-9 < dist_sq < (r_i + r_j)^2
InContact(pi, pj, ri, rj, L) ==
  LET dx == PbcDx(pi, pj, L)
  IN dx * dx < (ri + rj) * (ri + rj) /\ dx * dx > 0

\* v_n = (v_i - v_j) . n with n = (dx, 0, 0) / dist
NormalVelocity(pi, pj, vi, vj, L) == (vi - vj) * Sign(PbcDx(pi, pj, L))

\* the rows whose reactant pair is {type_i, type_j} and whose E_f is at most
\* e_coll = 0.5 * (mass / 2) * vn * vn
MatchedRows(rows, type_i, type_j, vn) ==
  {r \in 1 .. Len(rows) :
     /\ \/ (type_i = rows[r].r0 /\ type_j = rows[r].r1)
        \/ (type_i = rows[r].r1 /\ type_j = rows[r].r0)
     /\ MASS * vn * vn >= 4 * rows[r].ea_forward}

\* the impulse of a reactive event: vn_new = sqrt(max(0, vn^2 + 4 q / mass)),
\* impulse = (vn_new - vn) * 0.5
ReactiveImpulse(vn, q_val) ==
  LET sq == vn * vn + MulDiv(4 * q_val, 1, MASS)
      vn_new == ISqrt(IF sq < 0 THEN 0 ELSE sq)
  IN MulDiv(vn_new - vn, 1, 2)

\* the impulse of the elastic exchange
ElasticImpulse(vn) == -vn

NoLocals == [i |-> -1, j |-> -1, n |-> 0, vn |-> 0, sel |-> 0, vi |-> 0, vj |-> 0]

Cells == 0 .. (NumCells(cell_divs) - 1)

\* the cells whose task has a list to walk (head[cell_idx] is not -1)
BusyCells == {c \in Cells : head[c] # -1}
Pairs == {pr \in Slots \X Slots : pr[1] < pr[2]}

\* ---------------------------------------------------- process_1body_reactions
\* find_inactive_slot
FindInactiveSlot(ty) ==
  IF \E k \in Slots : ty[k] = -1
  THEN CHOOSE k \in Slots : ty[k] = -1 /\ \A h \in Slots : ty[h] = -1 => k <= h
  ELSE -1

\* whether random() < prob can hold: prob = min(1, A * exp(-ea / kT) * dt) > 0
CanFire(row) == row.freq.src = "collision" \/ row.freq.a > 0

\* energy_budget = q_val / mass + 0.25 * v_sq
EnergyBudget(q_val, v_sq) == MulDiv(q_val, 1, MASS) + MulDiv(v_sq, 1, 4)

\* the pool after row fires for slot i with separation direction d (+1 or -1)
FireDecay(i, row, d, ty, p, v) ==
  LET delta_v == ISqrt(EnergyBudget(row.q, v[i] * v[i]))
      v_base == MulDiv(v[i], 1, 2)
      ty1 == [ty EXCEPT ![i] = row.p0]
      v1 == [v EXCEPT ![i] = v_base + d * delta_v]
      slot == FindInactiveSlot(ty1)
  IN IF row.p1 >= 0 /\ slot >= 0
     THEN [types |-> [ty1 EXCEPT ![slot] = row.p1],
           pos |-> [p EXCEPT ![slot] = p[i]],
           vel |-> [v1 EXCEPT ![slot] = v_base - d * delta_v],
           fired |-> TRUE, two |-> TRUE, full |-> FALSE]
     ELSE [types |-> ty1, pos |-> p, vel |-> v1,
           fired |-> TRUE, two |-> row.p1 >= 0, full |-> row.p1 >= 0]

\* the outcomes of the loop over the rows for slot i, from row r on: a row
\* of another reactant is passed over, a row may not fire, a row that fires
\* without the energy for it is passed over, a row that fires ends the loop
RECURSIVE DecayOutcomes(_, _, _, _, _, _)
DecayOutcomes(r, i, rows, ty, p, v) ==
  IF r > Len(rows)
  THEN {[types |-> ty, pos |-> p, vel |-> v, fired |-> FALSE, two |-> FALSE, full |-> FALSE]}
  ELSE IF ty[i] # rows[r].reactant THEN DecayOutcomes(r + 1, i, rows, ty, p, v)
  ELSE DecayOutcomes(r + 1, i, rows, ty, p, v)
       \cup (IF ~CanFire(rows[r]) THEN {}
             ELSE IF EnergyBudget(rows[r].q, v[i] * v[i]) < 0
                  THEN DecayOutcomes(r + 1, i, rows, ty, p, v)
                  ELSE {FireDecay(i, rows[r], d, ty, p, v) : d \in {-1, 1}})

NoDecay == [i |-> -1, fired |-> FALSE, two |-> FALSE, full |-> FALSE,
            types |-> <<>>, pos |-> <<>>, vel |-> <<>>]


\* ------------------------------------------------ PhysicsEngineAdapter.update
\* a clock that update() leaves alone
FrozenSimTime(t) == t

\* self.sim_time += dt, in units of dt
NextSimTime(t) == t + 1

\* whether update() calls resolve_collisions_generic
ResolverCalled(rows2) == Len(rows2) > 0

\* whether update() calls process_1body_reactions
DecayCalled(rows1) == Len(rows1) > 0

\* _update_active_count
CountActive(ty) == Cardinality(ActiveSlots(ty))

\* update() up to the call of the pair resolver: the early return when the
\* cached active count is 0, else the thermostat, the drift and the cell list
UpdateBegin ==
  /\ physics_engine = "Adapter"
  /\ pc = "idle"
  /\ IF active_count = 0
     THEN /\ sim_time' = NextSimTime(sim_time)
          /\ last' = "update"
          /\ UNCHANGED <<poolVars, head, next_particle, stepVars,
                         visits, writers, exchanged, snap, dec>>
     ELSE LET v1 == ApplyThermostat(vel, types, temperature, use_thermostat)
              p1 == UpdatePositions(pos, v1, eng_box_size)
              cl == BuildCellList(p1, types, eng_box_size, cell_divs, head, next_particle)
          IN /\ vel' = v1
             /\ pos' = p1
             /\ head' = cl.head
             /\ next_particle' = cl.next
             /\ pc' = IF ResolverCalled(reactions_2body) THEN "resolve" ELSE "decay"
             /\ tk' = [c \in Cells |-> VisitSeq(c, head', next_particle', cell_divs)]
             /\ tph' = [c \in Cells |-> "read"]
             /\ tloc' = [c \in Cells |-> NoLocals]
             /\ di' = 0
             /\ visits' = [pr \in Pairs |-> 0]
             /\ writers' = [i \in Slots |-> {}]
             /\ exchanged' = {}
             /\ snap' = [types |-> types, pos |-> p1, vel |-> v1]
             /\ dec' = NoDecay
             /\ last' = "update_begin"
             /\ UNCHANGED <<types, sim_time>>
  /\ UNCHANGED <<physics_engine, active_count, eng_box_size, cell_divs,
                 reactions_2body, reactions_1body, radii>>

\* the task of cell c reaches its next pair (i, j) with i < j: the activity
\* guard, the contact test, the approach test and the choice of the row
TaskRead(c) ==
  /\ pc = "resolve"
  /\ tph[c] = "read"
  /\ tk[c] # <<>>
  /\ LET pair == Head(tk[c])
     IN /\ pair \in Pairs
        /\ LET i == pair[1]
               j == pair[2]
               type_i == types[i]
               type_j == types[j]
               max_type == MAX_SUBSTANCES - 1
               vn == NormalVelocity(pos[i], pos[j], vel[i], vel[j], eng_box_size)
               matched == MatchedRows(reactions_2body, type_i, type_j, vn)
           IN IF type_i < 0 \/ type_j < 0 \/ type_i > max_type \/ type_j > max_type
              THEN /\ tk' = [tk EXCEPT ![c] = Tail(@)]
                   /\ UNCHANGED <<tph, tloc, visits>>
              ELSE /\ visits' = [visits EXCEPT ![<<i, j>>] = @ + 1]
                   /\ IF InContact(pos[i], pos[j], radii[type_i], radii[type_j], eng_box_size)
                         /\ vn < 0
                      THEN /\ \E sel \in (IF matched = {} THEN {0} ELSE matched) :
                                tloc' = [tloc EXCEPT ![c] =
                                           [i |-> i, j |-> j,
                                            n |-> Sign(PbcDx(pos[i], pos[j], eng_box_size)),
                                            vn |-> vn, sel |-> sel,
                                            vi |-> vel[i], vj |-> vel[j]]]
                           /\ tph' = [tph EXCEPT ![c] = "write"]
                           /\ UNCHANGED tk
                      ELSE /\ tk' = [tk EXCEPT ![c] = Tail(@)]
                           /\ UNCHANGED <<tph, tloc>>
  /\ last' = "task_read"
  /\ UNCHANGED <<engVars, pc, di, writers, exchanged, snap, dec>>

\* the task of cell c writes the outcome of its pair: the product types of
\* the selected row and the reactive impulse, or the elastic exchange.
\* "vel[i] += impulse * n" is a load and a store with no lock: the value the
\* impulse is added to is the slot's current velocity or the one this task
\* loaded before another task's store (that store is then lost)
TaskWrite(c) ==
  /\ pc = "resolve"
  /\ tph[c] = "write"
  /\ LET i == tloc[c].i
         j == tloc[c].j
         n == tloc[c].n
         reacted == tloc[c].sel > 0
         row == reactions_2body[tloc[c].sel]
         impulse == IF reacted
                    THEN ReactiveImpulse(tloc[c].vn, row.ea_reverse - row.ea_forward)
                    ELSE ElasticImpulse(tloc[c].vn)
     IN /\ types' = IF reacted THEN [types EXCEPT ![i] = row.p0, ![j] = row.p1] ELSE types
        /\ \E bi \in {vel[i], tloc[c].vi}, bj \in {vel[j], tloc[c].vj} :
             vel' = [vel EXCEPT ![i] = bi + impulse * n, ![j] = bj - impulse * n]
        /\ writers' = [writers EXCEPT ![i] = @ \cup {c}, ![j] = @ \cup {c}]
        /\ exchanged' = IF reacted THEN exchanged ELSE exchanged \cup {<<i, j>>}
  /\ tph' = [tph EXCEPT ![c] = "read"]
  /\ tk' = [tk EXCEPT ![c] = Tail(@)]
  /\ tloc' = [tloc EXCEPT ![c] = NoLocals]
  /\ last' = "task_write"
  /\ UNCHANGED <<physics_engine, pos, sim_time, active_count, eng_box_size, cell_divs,
                 head, next_particle, reactions_2body, reactions_1body, radii,
                 pc, di, visits, snap, dec>>

\* every cell task has walked its lists: the resolver returns
ResolveDone ==
  /\ pc = "resolve"
  /\ \A c \in BusyCells :
       tph[c] = "read" /\ tk[c] = <<>>
  /\ pc' = "decay"
  /\ last' = "resolve_done"
  /\ UNCHANGED <<engVars, tk, tph, tloc, di, visits, writers, exchanged, snap, dec>>

\* the decay pass reaches slot di
DecayVisit ==
  /\ pc = "decay"
  /\ DecayCalled(reactions_1body)
  /\ di < NMax
  /\ IF types[di] < 0
     THEN UNCHANGED <<poolVars, dec>>
     ELSE \E out \in DecayOutcomes(1, di, reactions_1body, types, pos, vel) :
            /\ types' = out.types
            /\ pos' = out.pos
            /\ vel' = out.vel
            /\ dec' = [i |-> di, fired |-> out.fired, two |-> out.two, full |-> out.full,
                       types |-> types, pos |-> pos, vel |-> vel]
  /\ di' = di + 1
  /\ last' = "decay_visit"
  /\ UNCHANGED <<physics_engine, sim_time, active_count, eng_box_size, cell_divs,
                 head, next_particle, reactions_2body, reactions_1body, radii,
                 pc, tk, tph, tloc, visits, writers, exchanged, snap>>

\* the end of update(): the active count is refreshed when a table has rows,
\* and the time advances
Finish ==
  /\ pc = "decay"
  /\ ~DecayCalled(reactions_1body) \/ di = NMax
  /\ active_count' = IF Len(reactions_2body) > 0 \/ Len(reactions_1body) > 0
                     THEN CountActive(types) ELSE active_count
  /\ sim_time' = NextSimTime(sim_time)
  /\ pc' = "idle"
  /\ dec' = NoDecay
  /\ last' = "update"
  /\ UNCHANGED <<physics_engine, poolVars, eng_box_size, cell_divs, head, next_particle,
                 reactions_2body, reactions_1body, radii,
                 tk, tph, tloc, di, visits, writers, exchanged, snap>>

\* ------------------------------------------- the engine alone: repeated update()
BoxChoices == {4000, 6000, 9000}
RadiusChoices == {1000}
TempChoices == {10000}
EaChoices == {<<2500, 2500>>, <<2500, 10000>>, <<10000, 2500>>}

\* the default reaction 2A=B with activation energies ea
Reaction2AB(ea) ==
  [equation |-> <<"2", "A", "=", "B">>, reactant_types |-> <<0, 0>>, product_types |-> <<1>>,
   ea_forward |-> ea[1], ea_reverse |-> ea[2], frequency_factor |-> 1]

ReactionChoices == {<<>>} \cup {<<Reaction2AB(ea)>> : ea \in EaChoices}

SubstancesAB(r, na, nb) ==
  <<[id |-> "A", type_id |-> 0, radius |-> r, initial_count |-> na],
    [id |-> "B", type_id |-> 1, radius |-> r, initial_count |-> nb]>>

\* the server globals as the module leaves them: no run, the lock free, the
\* worker at the top of its loop, no event in flight
NoServer ==
  /\ simulation_running = FALSE
  /\ lock = "free"
  /\ wpc = "top"
  /\ wstep = 0
  /\ hpc = "idle"
  /\ arg = <<>>
  /\ calls = 0

NoHistory ==
  /\ last = "init"
  /\ visits = [pr \in Pairs |-> 0]
  /\ writers = [i \in Slots |-> {}]
  /\ exchanged = {}
  /\ snap = [types |-> types, pos |-> pos, vel |-> vel]
  /\ dec = NoDecay

EngineIs(e) ==
  /\ types = e.types
  /\ pos = e.pos
  /\ vel = e.vel
  /\ sim_time = e.sim_time
  /\ active_count = e.active_count
  /\ eng_box_size = e.eng_box_size
  /\ cell_divs = e.cell_divs
  /\ head = e.head
  /\ next_particle = e.next_particle
  /\ reactions_2body = e.reactions_2body
  /\ reactions_1body = e.reactions_1body
  /\ radii = e.radii

InitStep ==
  \E L \in BoxChoices, r \in RadiusChoices, T \in TempChoices, th \in {FALSE},
     rx \in ReactionChoices, na \in 0 .. NMax, nb \in 0 .. NMax :
    /\ na + nb <= NMax
    /\ temperature = T
    /\ use_thermostat = th
    /\ substances = SubstancesAB(r, na, nb)
    /\ reactions = rx
    /\ properties_locked = FALSE
    /\ box_size = L
    /\ slice_thickness = MulDiv(L, 1, 4)
    /\ physics_engine = "Adapter"
    /\ \E sd \in Seeds(SubstancesAB(r, na, nb), L) :
         EngineIs(EngineOf([temperature |-> T, use_thermostat |-> th,
                            substances |-> SubstancesAB(r, na, nb), reactions |-> rx,
                            properties_locked |-> FALSE, box_size |-> L,
                            slice_thickness |-> MulDiv(L, 1, 4)], sd))
    /\ pc = "idle"
    /\ tk = [c \in Cells |-> <<>>]
    /\ tph = [c \in Cells |-> "read"]
    /\ tloc = [c \in Cells |-> NoLocals]
    /\ di = 0
    /\ NoServer
    /\ NoHistory

NextStep ==
  \/ sim_time < MaxSteps /\ UpdateBegin /\ UNCHANGED <<cfgVars, srvVars>>
  \/ \E c \in BusyCells : TaskRead(c) /\ UNCHANGED <<cfgVars, srvVars>>
  \/ \E c \in BusyCells : TaskWrite(c) /\ UNCHANGED <<cfgVars, srvVars>>
  \/ ResolveDone /\ UNCHANGED <<cfgVars, srvVars>>
  \/ DecayVisit /\ UNCHANGED <<cfgVars, srvVars>>
  \/ Finish /\ UNCHANGED <<cfgVars, srvVars>>

SpecStep == InitStep /\ [][NextStep]_vars

\* ------------------------------------------------- properties of one update()
\* N_A + 2 * N_B of verify_equilibrium.py
Atoms(ty) ==
  Cardinality({i \in Slots : ty[i] = 0}) + 2 * Cardinality({i \in Slots : ty[i] = 1})

\* C1: a two-product decay that fires when the pool has no free slot is
\* aborted: the types, positions and velocities of all slots are the ones
\* from before the decay visit.
C1_AbortedDecayLeavesPool ==
  (dec.fired /\ dec.two /\ dec.full) =>
    (types = dec.types /\ pos = dec.pos /\ vel = dec.vel)

\* C2: with 2A=B compiled (one two-body row, one one-body row), N_A + 2 * N_B
\* at the end of a step equals its value at the start of the step.
C2_AtomsConserved ==
  (last = "update" /\ Len(reactions_2body) = 1 /\ Len(reactions_1body) = 1) =>
    Atoms(types) = Atoms(snap.types)

\* C3: in one resolver pass no unordered pair reaches the contact test more
\* than once, summed over all cell tasks, for every number of cell divisions.
C3_PairVisitedAtMostOnce == \A pr \in Pairs : visits[pr] <= 1

\* C4: during one parallel pass no slot has its velocity or type written by
\* two different cell tasks.
C4_OneWriterPerSlot == \A s \in Slots : Cardinality(writers[s]) <= 1

\* the pairs of the snapshot taken after the drift that are alone in the box,
\* in contact, approaching, and matched by no row of the two-body table
UnmatchedContacts ==
  {pr \in Pairs :
     /\ ActiveSlots(snap.types) = {pr[1], pr[2]}
     /\ InContact(snap.pos[pr[1]], snap.pos[pr[2]],
                  radii[snap.types[pr[1]]], radii[snap.types[pr[2]]], eng_box_size)
     /\ NormalVelocity(snap.pos[pr[1]], snap.pos[pr[2]],
                       snap.vel[pr[1]], snap.vel[pr[2]], eng_box_size) < 0
     /\ MatchedRows(reactions_2body, snap.types[pr[1]], snap.types[pr[2]],
                    NormalVelocity(snap.pos[pr[1]], snap.pos[pr[2]],
                                   snap.vel[pr[1]], snap.vel[pr[2]], eng_box_size)) = {}}

\* C5: every pair that passes the contact and approach tests and matches no
\* row has received the elastic exchange when the step reaches the decay
\* pass, also when the two-body table has no rows.
C5_UnmatchedPairExchanged ==
  (pc = "decay" /\ last # "init") => UnmatchedContacts \subseteq exchanged

\* C6 (amended): update() on an engine with no active particle leaves the
\* pool unchanged and advances the simulation time by one dt.
C6_EmptyUpdateAdvancesTime ==
  [][(pc = "idle" /\ ActiveSlots(types) = {} /\ last' = "update") =>
       (types' = types /\ pos' = pos /\ vel' = vel /\ sim_time' = sim_time + 1)]_vars

\* C6 as stated: update() on an engine with no active particle is a no-op,
\* the simulation time included.
C6_EmptyUpdateIsNoOp ==
  [][(pc = "idle" /\ ActiveSlots(types) = {} /\ last' = "update") =>
       (types' = types /\ pos' = pos /\ vel' = vel /\ sim_time' = sim_time)]_vars

\* C6: an empty engine has been stepped
C6_EmptyEngineStepped == ActiveSlots(types) = {} /\ last = "update" /\ sim_time >= 1

\* --------------------------------------- the configuration alone: update_from_dict
\* payload items: a substance and a reaction as the front end sends them
SubstanceItem(id, r, n) == [id |-> id, radius |-> r, initialCount |-> n]
ReactionItem(eq, ef, er) == [equation |-> eq, eaForward |-> ef, eaReverse |-> er]

Eq2AB == <<"2", "A", "=", "B">>
EqABC == <<"A", "+", "B", "-", ">", "C">>
EqBroken == <<"A", "+", "=", "B">>

ItemsAB == <<SubstanceItem("A", 1000, 1), SubstanceItem("B", 1000, 1)>>
ItemsABC == <<SubstanceItem("A", 1000, 1), SubstanceItem("B", 1000, 1), [id |-> "C"]>>
ItemsTooMany == [k \in 1 .. (MAX_SUBSTANCES + 1) |-> SubstanceItem(DefaultId(k - 1), 1000, 0)]

\* the payloads with no invalid item
ValidPayloads ==
  { [temperature |-> 12100],
    [useThermostat |-> TRUE],
    [sliceThickness |-> 1000],
    [boxSize |-> 9000],
    [boxSize |-> 20000],
    [substances |-> ItemsAB, reactions |-> <<ReactionItem(Eq2AB, 2500, 10000)>>],
    [substances |-> ItemsABC, reactions |-> <<ReactionItem(EqABC, 2500, 2500)>>],
    [reactions |-> <<>>],
    [temperature |-> 12100, substances |-> ItemsAB,
     reactions |-> <<ReactionItem(Eq2AB, 10000, 2500)>>,
     sliceThickness |-> 1000, boxSize |-> 9000] }

\* the payloads with an invalid item: an equation that does not parse, a
\* negative activation energy, a radius that is not positive, too many
\* substances
InvalidPayloads ==
  { [reactions |-> <<ReactionItem(EqBroken, 2500, 2500)>>],
    [substances |-> ItemsAB,
     reactions |-> <<ReactionItem(Eq2AB, 2500, 2500), ReactionItem(EqBroken, 2500, 2500)>>],
    [reactions |-> <<ReactionItem(Eq2AB, -2500, 2500)>>],
    [substances |-> <<SubstanceItem("A", 0, 2), SubstanceItem("B", 1000, 0)>>],
    [substances |-> <<SubstanceItem("A", -1000, 2)>>, boxSize |-> 9000],
    [substances |-> ItemsTooMany] }

Payloads == ValidPayloads \cup InvalidPayloads

\* whether payload data holds an invalid item, for the substances subs that
\* its equations are parsed against
HasInvalidItem(data, subs) ==
  \/ /\ HasKey(data, "substances")
     /\ \/ Len(data.substances) > MAX_SUBSTANCES
        \/ \E k \in 1 .. Len(data.substances) :
             HasKey(data.substances[k], "radius") /\ data.substances[k].radius <= 0
  \/ /\ HasKey(data, "reactions")
     /\ \E k \in 1 .. Len(data.reactions) :
          \/ ~ParseReactionEquation(data.reactions[k].equation, subs).ok
          \/ data.reactions[k].eaForward < 0
          \/ data.reactions[k].eaReverse < 0

\* runtime_config.update_from_dict(data)
UpdateFromDictCall(data) ==
  /\ SetConfig(UpdateFromDict(Config, data))
  /\ arg' = data
  /\ last' = "update_from_dict"

\* a start that leaves the properties as they are
LockForgotten == UNCHANGED cfgVars

\* runtime_config.lock_properties()
LockProperties ==
  /\ properties_locked' = TRUE
  /\ UNCHANGED <<temperature, use_thermostat, substances, reactions, box_size, slice_thickness>>

\* runtime_config.unlock_properties()
UnlockProperties ==
  /\ properties_locked' = FALSE
  /\ UNCHANGED <<temperature, use_thermostat, substances, reactions, box_size, slice_thickness>>

\* no adapter has been built
NoEngine ==
  /\ physics_engine = "None"
  /\ types = [i \in Slots |-> -1]
  /\ pos = [i \in Slots |-> 0]
  /\ vel = [i \in Slots |-> 0]
  /\ sim_time = 0
  /\ active_count = 0
  /\ eng_box_size = 0
  /\ cell_divs = 1
  /\ head = [k \in 0 .. 0 |-> -1]
  /\ next_particle = [i \in Slots |-> -1]
  /\ reactions_2body = <<>>
  /\ reactions_1body = <<>>
  /\ radii = [t \in 0 .. (MAX_SUBSTANCES - 1) |-> 0]
  /\ pc = "idle"
  /\ tk = [c \in 0 .. 0 |-> <<>>]
  /\ tph = [c \in 0 .. 0 |-> "read"]
  /\ tloc = [c \in 0 .. 0 |-> NoLocals]
  /\ di = 0

InitConfig ==
  /\ temperature \in TempChoices
  /\ use_thermostat \in BOOLEAN
  /\ \E r \in RadiusChoices : substances = SubstancesAB(r, 2, 0)
  /\ reactions \in ReactionChoices
  /\ properties_locked = FALSE
  /\ box_size \in BoxChoices
  /\ slice_thickness = MulDiv(box_size, 1, 4)
  /\ NoEngine
  /\ NoServer
  /\ NoHistory

NextConfig ==
  \/ \E data \in Payloads :
       /\ UpdateFromDictCall(data)
       /\ UNCHANGED <<engVars, stepVars, simulation_running, lock, wpc, wstep, hpc, calls,
                      visits, writers, exchanged, snap, dec>>
  \/ /\ LockProperties
     /\ last' = "lock_properties"
     /\ UNCHANGED <<engVars, stepVars, srvVars, visits, writers, exchanged, snap, dec>>
  \/ /\ UnlockProperties
     /\ last' = "unlock_properties"
     /\ UNCHANGED <<engVars, stepVars, srvVars, visits, writers, exchanged, snap, dec>>

SpecConfig == InitConfig /\ [][NextConfig]_vars

\* C8 (amended): update_from_dict while the properties are locked changes no
\* field other than temperature, use_thermostat and slice_thickness:
\* box_size, substances, reactions and the lock keep their values.
C8_LockedKeepsProperties ==
  [][(properties_locked /\ last' = "update_from_dict") =>
       (box_size' = box_size /\ substances' = substances /\ reactions' = reactions
        /\ properties_locked' = properties_locked)]_vars

\* C8 as stated: update_from_dict while the properties are locked changes no
\* field other than temperature and use_thermostat; slice_thickness,
\* box_size, substances and reactions keep their values.
C8_LockedKeepsSliceThickness ==
  [][(properties_locked /\ last' = "update_from_dict") =>
       (slice_thickness' = slice_thickness /\ box_size' = box_size
        /\ substances' = substances /\ reactions' = reactions
        /\ properties_locked' = properties_locked)]_vars

\* C8: a payload with substances, reactions, boxSize and sliceThickness has
\* been applied to a locked configuration
C8_LockedUpdateApplied ==
  /\ properties_locked
  /\ last = "update_from_dict"
  /\ {"substances", "reactions", "boxSize", "sliceThickness"} \subseteq DOMAIN arg

\* C9: update_from_dict on an unlocked configuration with a payload that
\* holds an invalid item is rejected as a whole: every field keeps its value.
C9_InvalidPayloadRejected ==
  [][(~properties_locked /\ last' = "update_from_dict"
      /\ HasInvalidItem(arg', IF HasKey(arg', "substances")
                              THEN NewSubstances(arg'.substances) ELSE substances)) =>
       UNCHANGED cfgVars]_vars

\* ------------------------------------------------------ the server: src/server.py
\* the clip of rescale_velocities_to_target_temperature, in percent
RESCALE_MIN == 10
RESCALE_MAX == 1000

\* velocities that no retarget touches
NoRescale(v, ty, target) == v

\* sqrt(self.config.temperature / current_temp) before the clip, in percent
RawScale(v, ty, target) ==
  LET act == ActiveSlots(ty)
      v_sq == SumOver(act, [i \in Slots |-> v[i] * v[i]])
  IN ISqrt((10000 * target * Cardinality(act) * KB3) \div (MASS * v_sq))

\* rescale_velocities_to_target_temperature: the velocities after it
RescaleVelocities(v, ty, target) ==
  LET act == ActiveSlots(ty)
      v_sq == SumOver(act, [i \in Slots |-> v[i] * v[i]])
      raw == ISqrt((10000 * target * Cardinality(act) * KB3) \div (MASS * v_sq))
      scale == IF raw < RESCALE_MIN THEN RESCALE_MIN
               ELSE IF raw > RESCALE_MAX THEN RESCALE_MAX ELSE raw
  IN IF act = {} \/ MASS * v_sq <= 0 THEN v
     ELSE [i \in Slots |-> IF ty[i] >= 0 THEN MulDiv(v[i], scale, 100) ELSE v[i]]

\* the draws of _init_particles explored under the server: the seeded slots
\* in a row, one cell size apart, the first two approaching each other
ServerSeeds(subs, L) ==
  {sd \in Seeds(subs, L) :
     \A i \in Slots : i < SeededCount(subs) =>
       /\ sd.pos[i] = 2000 + 1000 * i
       /\ sd.vel[i] = IF i = 0 THEN 100 ELSE IF i = 1 THEN -100 ELSE 0}

\* physics_engine = PhysicsEngineAdapter(runtime_config), for configuration c
NewEngine(c) ==
  \E sd \in ServerSeeds(c.substances, c.box_size) :
    LET e == EngineOf(c, sd)
    IN /\ physics_engine' = "Adapter"
       /\ types' = e.types
       /\ pos' = e.pos
       /\ vel' = e.vel
       /\ sim_time' = e.sim_time
       /\ active_count' = e.active_count
       /\ eng_box_size' = e.eng_box_size
       /\ cell_divs' = e.cell_divs
       /\ head' = e.head
       /\ next_particle' = e.next_particle
       /\ reactions_2body' = e.reactions_2body
       /\ reactions_1body' = e.reactions_1body
       /\ radii' = e.radii
       /\ pc' = "idle"
       /\ tk' = [k \in 0 .. (NumCells(e.cell_divs) - 1) |-> <<>>]
       /\ tph' = [k \in 0 .. (NumCells(e.cell_divs) - 1) |-> "read"]
       /\ tloc' = [k \in 0 .. (NumCells(e.cell_divs) - 1) |-> NoLocals]
       /\ di' = 0

\* an event handler may start: none is in flight and the budget is not spent
HandlerFree == hpc = "idle" /\ calls < MaxCalls

\* a lock that never blocks
LockIgnored == TRUE

\* a handler enters "with simulation_lock:" and leaves it in the same step
LockFree == lock = "free"

KeepHistory == UNCHANGED <<visits, writers, exchanged, snap, dec>>

\* handle_connect
HandleConnect ==
  /\ HandlerFree /\ LockFree
  /\ simulation_running' = FALSE
  /\ NewEngine(Config)
  /\ calls' = calls + 1
  /\ last' = "connect"
  /\ UNCHANGED <<cfgVars, lock, wpc, wstep, hpc, arg>>
  /\ KeepHistory

\* handle_disconnect: the run flag is cleared and the process exits
HandleDisconnect ==
  /\ HandlerFree /\ LockFree
  /\ simulation_running' = FALSE
  /\ hpc' = "shutdown"
  /\ calls' = calls + 1
  /\ last' = "disconnect"
  /\ UNCHANGED <<cfgVars, engVars, stepVars, lock, wpc, wstep, arg>>
  /\ KeepHistory

\* handle_start
HandleStart ==
  /\ HandlerFree /\ LockFree
  /\ IF physics_engine = "None" THEN NewEngine(Config) ELSE UNCHANGED <<engVars, stepVars>>
  /\ LockProperties
  /\ simulation_running' = TRUE
  /\ calls' = calls + 1
  /\ last' = "start"
  /\ UNCHANGED <<lock, wpc, wstep, hpc, arg>>
  /\ KeepHistory

\* handle_start in a second handler thread, while handle_update_config is
\* between two of its statements (each event is handled in a thread of its own)
StartMeanwhile ==
  /\ hpc \in {"uc_fast", "uc_preview", "uc_rebuild", "uc_box", "uc_reload"}
  /\ calls < MaxCalls
  /\ LockFree
  /\ IF physics_engine = "None" THEN NewEngine(Config) ELSE UNCHANGED <<engVars, stepVars>>
  /\ LockProperties
  /\ simulation_running' = TRUE
  /\ calls' = calls + 1
  /\ last' = "start"
  /\ UNCHANGED <<lock, wpc, wstep, hpc, arg>>
  /\ KeepHistory

\* the pause event arrives: handle_pause is entered and reaches
\* "with simulation_lock:", where it waits while the worker holds the lock
PauseCalled ==
  /\ HandlerFree
  /\ hpc' = "pause"
  /\ calls' = calls + 1
  /\ last' = "pause_called"
  /\ UNCHANGED <<cfgVars, engVars, stepVars, simulation_running, lock, wpc, wstep, arg>>
  /\ KeepHistory

\* handle_pause: the run flag is cleared under the lock and the handler returns
HandlePause ==
  /\ hpc = "pause"
  /\ LockFree
  /\ simulation_running' = FALSE
  /\ hpc' = "idle"
  /\ last' = "pause"
  /\ UNCHANGED <<cfgVars, engVars, stepVars, lock, wpc, wstep, arg, calls>>
  /\ KeepHistory

\* handle_reset
HandleReset ==
  /\ HandlerFree /\ LockFree
  /\ simulation_running' = FALSE
  /\ UnlockProperties
  /\ NewEngine([Config EXCEPT !.properties_locked = FALSE])
  /\ calls' = calls + 1
  /\ last' = "reset"
  /\ UNCHANGED <<lock, wpc, wstep, hpc, arg>>
  /\ KeepHistory

\* the payloads of update_config explored under the server
ServerPayloads ==
  { [temperature |-> 12100],
    [substances |-> ItemsAB, reactions |-> <<ReactionItem(Eq2AB, 2500, 2500)>>],
    [boxSize |-> 9000] }

\* handle_update_config, first statement: runtime_config.update_from_dict(data)
\* runs without simulation_lock
UcUpdateFromDict ==
  /\ HandlerFree
  /\ \E data \in ServerPayloads :
       /\ SetConfig(UpdateFromDict(Config, data))
       /\ arg' = data
       /\ hpc' = IF DOMAIN data = {"temperature"} THEN "uc_fast" ELSE "uc_preview"
  /\ calls' = calls + 1
  /\ last' = "uc_update_from_dict"
  /\ UNCHANGED <<engVars, stepVars, simulation_running, lock, wpc, wstep>>
  /\ KeepHistory

\* the temperature-only path: the velocities are rescaled under the lock
UcFast ==
  /\ hpc = "uc_fast"
  /\ IF physics_engine = "None" THEN UNCHANGED vel
     ELSE LockFree /\ vel' = RescaleVelocities(vel, types, temperature)
  /\ hpc' = "idle"
  /\ last' = "uc_fast"
  /\ UNCHANGED <<cfgVars, physics_engine, types, pos, sim_time, active_count, eng_box_size,
                 cell_divs, head, next_particle, reactions_2body, reactions_1body, radii,
                 stepVars, simulation_running, lock, wpc, wstep, arg, calls>>
  /\ KeepHistory

\* the test "not simulation_running and should_preview", made outside the lock
UcPreview ==
  /\ hpc = "uc_preview"
  /\ hpc' = IF ~simulation_running /\ (HasKey(arg, "substances") \/ HasKey(arg, "reactions"))
            THEN "uc_rebuild" ELSE "uc_box"
  /\ last' = "uc_preview"
  /\ UNCHANGED <<cfgVars, engVars, stepVars, simulation_running, lock, wpc, wstep, arg, calls>>
  /\ KeepHistory

\* the preview: a new adapter replaces the engine under the lock
UcRebuild ==
  /\ hpc = "uc_rebuild"
  /\ LockFree
  /\ NewEngine(Config)
  /\ hpc' = "uc_box"
  /\ last' = "uc_rebuild"
  /\ UNCHANGED <<cfgVars, simulation_running, lock, wpc, wstep, arg, calls>>
  /\ KeepHistory

\* positions that no box update touches
KeepPositions(p, ty, new_box_size, old_box_size) == p

\* self.pos[active_mask] *= new_box_size / old_box_size
ScalePositions(p, ty, new_box_size, old_box_size) ==
  [i \in Slots |-> IF ty[i] >= 0 THEN MulDiv(p[i], new_box_size, old_box_size) ELSE p[i]]

\* PhysicsEngineAdapter.update_box_size(runtime_config.box_size)
UpdateBoxSize(new_box_size) ==
  IF new_box_size = eng_box_size
  THEN UNCHANGED <<pos, eng_box_size, cell_divs, head, next_particle, tk, tph, tloc>>
  ELSE /\ pos' = ScalePositions(pos, types, new_box_size, eng_box_size)
       /\ eng_box_size' = new_box_size
       /\ cell_divs' = CellDivs(new_box_size, radii)
       /\ head' = [k \in 0 .. (NumCells(CellDivs(new_box_size, radii)) - 1) |-> -1]
       /\ next_particle' = [i \in Slots |-> -1]
       /\ tk' = [k \in 0 .. (NumCells(CellDivs(new_box_size, radii)) - 1) |-> <<>>]
       /\ tph' = [k \in 0 .. (NumCells(CellDivs(new_box_size, radii)) - 1) |-> "read"]
       /\ tloc' = [k \in 0 .. (NumCells(CellDivs(new_box_size, radii)) - 1) |-> NoLocals]

\* the hot update of the box under the lock, when the payload has boxSize
UcBox ==
  /\ hpc = "uc_box"
  /\ IF HasKey(arg, "boxSize") /\ physics_engine # "None"
     THEN LockFree /\ UpdateBoxSize(box_size)
     ELSE UNCHANGED <<pos, eng_box_size, cell_divs, head, next_particle, tk, tph, tloc>>
  /\ hpc' = "uc_reload"
  /\ last' = "uc_box"
  /\ UNCHANGED <<cfgVars, physics_engine, types, vel, sim_time, active_count,
                 reactions_2body, reactions_1body, radii, pc, di,
                 simulation_running, lock, wpc, wstep, arg, calls>>
  /\ KeepHistory

\* PhysicsEngineAdapter.reload_config
ReloadConfig ==
  LET rad == BuildRadiiArray(substances)
      M == CellDivs(box_size, rad)
  IN /\ reactions_2body' = BuildReactions2Body(reactions)
     /\ reactions_1body' = BuildReactions1Body(reactions, substances, temperature)
     /\ radii' = rad
     /\ eng_box_size' = box_size
     /\ cell_divs' = M
     /\ IF box_size # eng_box_size
        THEN /\ head' = [k \in 0 .. (NumCells(M) - 1) |-> -1]
             /\ next_particle' = [i \in Slots |-> -1]
        ELSE UNCHANGED <<head, next_particle>>
     /\ tk' = [k \in 0 .. (NumCells(M) - 1) |-> <<>>]
     /\ tph' = [k \in 0 .. (NumCells(M) - 1) |-> "read"]
     /\ tloc' = [k \in 0 .. (NumCells(M) - 1) |-> NoLocals]

\* the last statement of handle_update_config: reload_config under the lock
UcReload ==
  /\ hpc = "uc_reload"
  /\ IF physics_engine # "None"
     THEN LockFree /\ ReloadConfig
     ELSE UNCHANGED <<reactions_2body, reactions_1body, radii, eng_box_size, cell_divs,
                      head, next_particle, tk, tph, tloc>>
  /\ hpc' = "idle"
  /\ last' = "uc_reload"
  /\ UNCHANGED <<cfgVars, physics_engine, types, pos, vel, sim_time, active_count, pc, di,
                 simulation_running, lock, wpc, wstep, arg, calls>>
  /\ KeepHistory

\* simulation_loop: "with simulation_lock:" is entered; without a run or an
\* engine the worker sleeps 0.1 s inside the block, else a batch starts
WorkerAcquire ==
  /\ wpc = "top"
  /\ LockFree
  /\ (simulation_running /\ physics_engine # "None") => sim_time < MaxTime
  /\ lock' = "worker"
  /\ wpc' = IF ~simulation_running \/ physics_engine = "None" THEN "sleep" ELSE "batch"
  /\ wstep' = 0
  /\ last' = "worker_acquire"
  /\ UNCHANGED <<cfgVars, engVars, stepVars, simulation_running, hpc, arg, calls>>
  /\ KeepHistory

\* time.sleep(0.1); continue: the block is left and the lock released
WorkerSleep ==
  /\ wpc = "sleep"
  /\ lock' = "free"
  /\ wpc' = "top"
  /\ last' = "worker_sleep"
  /\ UNCHANGED <<cfgVars, engVars, stepVars, simulation_running, wstep, hpc, arg, calls>>
  /\ KeepHistory

\* inside the batch: for _ in range(steps_per_frame): physics_engine.update()
InBatch == wpc = "batch" /\ wstep < STEPS_PER_FRAME

WorkerKeeps == UNCHANGED <<cfgVars, simulation_running, lock, wpc, hpc, arg, calls>>

WorkerUpdateBegin ==
  /\ InBatch
  /\ UpdateBegin
  /\ wstep' = IF active_count = 0 THEN wstep + 1 ELSE wstep
  /\ WorkerKeeps

WorkerTaskRead == InBatch /\ (\E c \in BusyCells : TaskRead(c)) /\ UNCHANGED wstep /\ WorkerKeeps

WorkerTaskWrite == InBatch /\ (\E c \in BusyCells : TaskWrite(c)) /\ UNCHANGED wstep /\ WorkerKeeps

WorkerResolveDone == InBatch /\ ResolveDone /\ UNCHANGED wstep /\ WorkerKeeps

WorkerDecayVisit == InBatch /\ DecayVisit /\ UNCHANGED wstep /\ WorkerKeeps

WorkerFinish == InBatch /\ Finish /\ wstep' = wstep + 1 /\ WorkerKeeps

\* state = physics_engine.get_state(), the last statement inside the block:
\* the lock is released
WorkerGetState ==
  /\ wpc = "batch"
  /\ wstep = STEPS_PER_FRAME
  /\ lock' = "free"
  /\ wpc' = "emit"
  /\ last' = "get_state"
  /\ UNCHANGED <<cfgVars, engVars, stepVars, simulation_running, wstep, hpc, arg, calls>>
  /\ KeepHistory

\* socketio.emit('state_update', state) and the pacing sleep, outside the lock
WorkerEmit ==
  /\ wpc = "emit"
  /\ wpc' = "top"
  /\ last' = "emit"
  /\ UNCHANGED <<cfgVars, engVars, stepVars, simulation_running, lock, wstep, hpc, arg, calls>>
  /\ KeepHistory

\* the module as imported: the default configuration, no engine, no run
InitServer ==
  /\ temperature \in TempChoices
  /\ use_thermostat = TRUE
  /\ \E r \in RadiusChoices : substances = SubstancesAB(r, 2, 0)
  /\ reactions = <<Reaction2AB(<<2500, 2500>>)>>
  /\ properties_locked = FALSE
  /\ box_size = 6000
  /\ slice_thickness = MulDiv(box_size, 1, 4)
  /\ NoEngine
  /\ NoServer
  /\ NoHistory

NextServer ==
  \/ HandleConnect
  \/ HandleDisconnect
  \/ HandleStart
  \/ PauseCalled
  \/ HandlePause
  \/ HandleReset
  \/ UcUpdateFromDict
  \/ UcFast
  \/ UcPreview
  \/ UcRebuild
  \/ UcBox
  \/ UcReload
  \/ WorkerAcquire
  \/ WorkerSleep
  \/ WorkerUpdateBegin
  \/ WorkerTaskRead
  \/ WorkerTaskWrite
  \/ WorkerResolveDone
  \/ WorkerDecayVisit
  \/ WorkerFinish
  \/ WorkerGetState
  \/ WorkerEmit

SpecServer == InitServer /\ [][NextServer]_vars

\* the steps of handle_update_config
UcSteps == {"uc_update_from_dict", "uc_fast", "uc_preview", "uc_rebuild", "uc_box", "uc_reload"}

\* C7: while the properties are locked (a paused run included), no step of
\* update_config with substances or reactions in its payload changes the
\* pool, the compiled reaction tables or the simulation time.
C7_LockedUpdateConfigKeepsEngine ==
  [][(properties_locked /\ last' \in UcSteps
      /\ (HasKey(arg', "substances") \/ HasKey(arg', "reactions"))) =>
       UNCHANGED <<types, pos, vel, reactions_2body, reactions_1body, sim_time>>]_vars

\* C10: the configuration that update() reads (temperature, use_thermostat,
\* box_size) does not change while the worker is inside a batch holding the lock, so
\* the 10 steps and the snapshot observe one configuration.
C10_BatchSeesOneConfiguration ==
  [][(lock = "worker" /\ wpc = "batch") =>
       (temperature' = temperature /\ use_thermostat' = use_thermostat
        /\ eng_box_size' = eng_box_size)]_vars
\* the steps of PhysicsEngineAdapter.update()
UpdateSteps == {"update_begin", "task_read", "task_write", "resolve_done", "decay_visit", "update"}

\* C11: a step of update() is taken only while the run flag is set, so after
\* handle_pause has returned there is none until a start sets the flag again;
\* a batch in progress keeps the flag set and the lock held, and it is left
\* only after its 10 steps, by the snapshot (get_state), never cut short.
C11_PauseTakesEffectBetweenBatches ==
  /\ [][(last' \in UpdateSteps) => (simulation_running /\ simulation_running')]_vars
  /\ [][(wpc = "batch" /\ wpc' # "batch")
          => (wstep = STEPS_PER_FRAME /\ last' = "get_state")]_vars
  /\ [][(last' = "pause") => (wpc # "batch" /\ ~simulation_running')]_vars
  /\ [][(~simulation_running /\ simulation_running') => last' = "start"]_vars

\* a pause arrives in the middle of a batch
C11_PauseCalledInsideBatch ==
  last = "pause_called" /\ wpc = "batch" /\ 0 < wstep /\ wstep < STEPS_PER_FRAME

\* ------------------------------- the adapter alone: update() and its other methods
AdapterBoxes == {4000, 9000}
AdapterTemps == {64, 12100}

\* a first-order reaction A=B with one product
ReactionAB(ea) ==
  [equation |-> <<"A", "=", "B">>, reactant_types |-> <<0>>, product_types |-> <<1>>,
   ea_forward |-> ea[1], ea_reverse |-> ea[2], frequency_factor |-> 1]

AdapterReactions == {<<Reaction2AB(<<2500, 2500>>)>>, <<ReactionAB(<<4500, 2500>>)>>}

\* the draw of _init_particles explored here: slot 0 next to the upper wall
\* and moving into it, slot 1 coming the other way, the others at rest
AdapterSeeds(subs, L) ==
  {[pos |-> [i \in Slots |-> IF i >= SeededCount(subs) THEN 0
                              ELSE IF i = 0 THEN L - 50 ELSE 1000 * i],
    vel |-> [i \in Slots |-> IF i >= SeededCount(subs) THEN 0
                              ELSE IF i = 0 THEN 100 ELSE IF i = 1 THEN -100 ELSE 0]]}

\* get_state: the time, the count of each substance and the cached active count
GetState ==
  [time |-> sim_time,
   substanceCounts |-> [k \in 1 .. Len(substances) |->
                          Cardinality({i \in Slots : types[i] = substances[k].type_id})],
   activeCount |-> active_count]

\* a method of the adapter other than update() is called between two update()
AdapterCall(name) ==
  /\ physics_engine = "Adapter"
  /\ pc = "idle"
  /\ calls < MaxOps
  /\ calls' = calls + 1
  /\ last' = name
  /\ snap' = [types |-> types, pos |-> pos, vel |-> vel]
  /\ UNCHANGED <<physics_engine, active_count, pc, di, properties_locked, slice_thickness,
                 use_thermostat, substances, reactions,
                 simulation_running, lock, wpc, wstep, hpc, arg,
                 visits, writers, exchanged, dec>>

\* PhysicsEngineAdapter.reset: reload_config, _init_particles, sim_time = 0
Reset ==
  /\ AdapterCall("engine_reset")
  /\ ReloadConfig
  /\ \E sd \in AdapterSeeds(substances, box_size) :
       /\ types' = InitTypes(substances)
       /\ pos' = sd.pos
       /\ vel' = sd.vel
  /\ sim_time' = 0
  /\ UNCHANGED <<temperature, box_size>>

\* the temperature is set in the configuration and
\* rescale_velocities_to_target_temperature is called
Retarget(target) ==
  /\ AdapterCall("retarget")
  /\ temperature' = target
  /\ vel' = RescaleVelocities(vel, types, target)
  /\ UNCHANGED <<box_size, types, pos, sim_time, eng_box_size, cell_divs, head, next_particle,
                 reactions_2body, reactions_1body, radii, tk, tph, tloc>>

\* the box is set in the configuration and update_box_size is called
BoxUpdate(new_box_size) ==
  /\ AdapterCall("update_box_size")
  /\ box_size' = new_box_size
  /\ UpdateBoxSize(new_box_size)
  /\ UNCHANGED <<temperature, types, vel, sim_time, reactions_2body, reactions_1body, radii>>

InitAdapter ==
  \E r \in RadiusChoices, T \in TempChoices, th \in {TRUE}, rx \in AdapterReactions,
     na \in 2 .. NMax, nb \in 0 .. 1 :
    LET c == [temperature |-> T, use_thermostat |-> th,
              substances |-> SubstancesAB(r, na, nb), reactions |-> rx,
              properties_locked |-> FALSE, box_size |-> 6000,
              slice_thickness |-> MulDiv(6000, 1, 4)]
    IN /\ temperature = c.temperature
       /\ use_thermostat = c.use_thermostat
       /\ substances = c.substances
       /\ reactions = c.reactions
       /\ properties_locked = c.properties_locked
       /\ box_size = c.box_size
       /\ slice_thickness = c.slice_thickness
       /\ physics_engine = "Adapter"
       /\ \E sd \in AdapterSeeds(c.substances, c.box_size) : EngineIs(EngineOf(c, sd))
       /\ pc = "idle"
       /\ tk = [k \in Cells |-> <<>>]
       /\ tph = [k \in Cells |-> "read"]
       /\ tloc = [k \in Cells |-> NoLocals]
       /\ di = 0
       /\ NoServer
       /\ NoHistory

NextAdapter ==
  \/ /\ calls < MaxOps
     /\ UpdateBegin
     /\ calls' = calls + 1
     /\ UNCHANGED <<cfgVars, simulation_running, lock, wpc, wstep, hpc, arg>>
  \/ \E c \in BusyCells : TaskRead(c) /\ UNCHANGED <<cfgVars, srvVars>>
  \/ \E c \in BusyCells : TaskWrite(c) /\ UNCHANGED <<cfgVars, srvVars>>
  \/ ResolveDone /\ UNCHANGED <<cfgVars, srvVars>>
  \/ DecayVisit /\ UNCHANGED <<cfgVars, srvVars>>
  \/ Finish /\ UNCHANGED <<cfgVars, srvVars>>
  \/ Reset
  \/ \E target \in AdapterTemps : Retarget(target)
  \/ \E new_box_size \in AdapterBoxes : BoxUpdate(new_box_size)

SpecAdapter == InitAdapter /\ [][NextAdapter]_vars

\* ------------------------------------------------ properties of one pair write
\* the cell task that writes its pair in this step
Writing(c) == pc = "resolve" /\ tph[c] = "write" /\ tph'[c] = "read"

\* twice the kinetic energy of slots i and j under velocities v
PairEnergy2(v, i, j) == MASS * (v[i] * v[i] + v[j] * v[j])

\* C12: for every pair the resolver resolves (elastic, two products, or one
\* product with the second slot set to -1) the sum of the two slots'
\* velocities after the impulse equals the sum before it.
C12_PairMomentumConserved ==
  [][\A c \in Cells : Writing(c) =>
       vel'[tloc[c].i] + vel'[tloc[c].j] = vel[tloc[c].i] + vel[tloc[c].j]]_vars

\* C13: for a reactive event with a selected row (E_f >= 0, E_r >= 0) admitted
\* by the gate, the clamp of vn_new^2 to zero is not taken and the pair's
\* kinetic energy after the impulse minus the one before equals
\* Q = E_r - E_f, up to the truncation of the square root and of the halving
\* (at most vn_new below Q).
C13_ReactionHeatReleased ==
  [][\A c \in Cells : (Writing(c) /\ tloc[c].sel > 0) =>
       LET row == reactions_2body[tloc[c].sel]
           q_val == row.ea_reverse - row.ea_forward
           vn_new_sq == tloc[c].vn * tloc[c].vn + MulDiv(4 * q_val, 1, MASS)
           gain2 == PairEnergy2(vel', tloc[c].i, tloc[c].j)
                    - PairEnergy2(vel, tloc[c].i, tloc[c].j)
       IN (row.ea_forward >= 0 /\ row.ea_reverse >= 0) =>
            /\ vn_new_sq >= 0
            /\ gain2 <= 2 * q_val
            /\ gain2 >= 2 * q_val - 2 * MASS * ISqrt(vn_new_sq)]_vars

\* C18: under any interleaving of the cell tasks, the two slots a task writes
\* are active (type >= 0) at the moment of the write: a slot deactivated
\* earlier in the pass takes part in no later collision of the pass.
C18_NoWriteToInactiveSlot ==
  [][\A c \in Cells : Writing(c) =>
       (types[tloc[c].i] >= 0 /\ types[tloc[c].j] >= 0)]_vars

\* C20: a pair that passes the contact and approach tests gets one impulse,
\* the reactive one of a row whose reactant pair is {type_i, type_j} and whose
\* E_f is at most E_c, or else the elastic one, and after the impulse the
\* pair's normal relative velocity is >= 0.
C20_OneImpulseAndSeparation ==
  [][\A c \in Cells :
       /\ (pc = "resolve" /\ tph[c] = "read" /\ tph'[c] = "write" /\ tloc'[c].sel > 0) =>
            LET row == reactions_2body[tloc'[c].sel]
                ti == types[tloc'[c].i]
                tj == types[tloc'[c].j]
            IN /\ {ti, tj} = {row.r0, row.r1}
               /\ (ti = tj) = (row.r0 = row.r1)
               /\ 4 * row.ea_forward <= MASS * tloc'[c].vn * tloc'[c].vn
       /\ Writing(c) =>
            NormalVelocity(pos[tloc[c].i], pos[tloc[c].j],
                           vel'[tloc[c].i], vel'[tloc[c].j], eng_box_size) >= 0]_vars

\* ------------------------------------------------ properties of the adapter's methods
\* C14: after every update() every active slot lies in [0, L) on the axis,
\* the slots a decay of that update() activated included.
C14_ActivePositionsInBox ==
  (last = "update") => \A i \in ActiveSlots(types) : 0 <= pos[i] /\ pos[i] < eng_box_size

\* an update() in which a decay activated a slot that was free when it began
C14_DecayActivatedSlot ==
  last = "update" /\ \E i \in Slots : types[i] >= 0 /\ snap.types[i] = -1

C16_BoxUpdateKeepsPool ==
  [][(last' = "update_box_size") =>
       /\ types' = types
       /\ active_count' = active_count
       /\ CountActive(types') = CountActive(types)
       /\ eng_box_size' = box_size'
       /\ \A i \in ActiveSlots(types') : 0 <= pos'[i] /\ pos'[i] < eng_box_size']_vars

\* the box was shrunk and an active slot that lay beyond the new box is inside it
C16_BoxShrunkOverSlot ==
  /\ last = "update_box_size"
  /\ eng_box_size = 4000
  /\ \E i \in ActiveSlots(types) : snap.pos[i] >= 4000 /\ pos[i] < 4000

\* the instantaneous temperature after the retarget is the target, up to the
\* truncations of the rescale: with v_sq the sum of the squared speeds of
\* the n active slots (n * 3 k_B * T_inst / mass), v_sq after the retarget is
\* at most n * 3 k_B * T_target / mass and below it by no more than the
\* truncations of the scale (raw percent) and of the products leave
ReachesTarget ==
  LET act == ActiveSlots(types)
      raw == RawScale(vel, types, temperature')
      v_sq == SumOver(act, [i \in Slots |-> vel[i] * vel[i]])
      v_abs == SumOver(act, [i \in Slots |-> Abs(vel[i])])
      want == temperature' * Cardinality(act) * KB3
      got == MASS * SumOver(ActiveSlots(types'), [i \in Slots |-> vel'[i] * vel'[i]])
  IN got <= want
     /\ want - got <= MASS * (((2 * raw + 2) * v_sq) \div 10000
                              + (2 * raw * v_abs) \div 100 + 2)

\* C17 as stated: after the retarget with target > 0 on a pool whose
\* instantaneous temperature is positive, the instantaneous temperature of the
\* active slots equals the target, for every ratio of the two.
C17_RetargetReachesTarget ==
  [][(last' = "retarget" /\ temperature' > 0 /\ \E i \in ActiveSlots(types) : vel[i] # 0)
       => ReachesTarget]_vars

\* C17 as the code has it: the scale sqrt(T_target / T_inst) is clipped to
\* [0.1, 10]; when it lies inside, the instantaneous temperature after the
\* retarget equals the target, else every active velocity is multiplied by
\* the bound of the clip, whatever the target.
C17_RetargetClipped ==
  [][(last' = "retarget" /\ temperature' > 0 /\ \E i \in ActiveSlots(types) : vel[i] # 0) =>
       LET raw == RawScale(vel, types, temperature')
       IN /\ (RESCALE_MIN <= raw /\ raw <= RESCALE_MAX) => ReachesTarget
          /\ raw < RESCALE_MIN =>
               \A i \in ActiveSlots(types) : vel'[i] = MulDiv(vel[i], RESCALE_MIN, 100)
          /\ raw > RESCALE_MAX =>
               \A i \in ActiveSlots(types) : vel'[i] = MulDiv(vel[i], RESCALE_MAX, 100)
          /\ \A i \in Slots \ ActiveSlots(types) : vel'[i] = vel[i]]_vars

\* a retarget whose scale fell below the clip
C17_RetargetBelowClip ==
  /\ last = "retarget"
  /\ \E i \in ActiveSlots(snap.types) : snap.vel[i] # 0
  /\ RawScale(snap.vel, snap.types, temperature) < RESCALE_MIN

\* C19: when a one-body row with one product (p1 = -1) fires for slot i, only
\* types[i] changes, to p0: no velocity and no position changes; and a row
\* that can fire for the slot's type can fire whatever the slot's speed.
C19_RenameOnlyChangesType ==
  /\ [][(last' = "decay_visit" /\ dec'.i = di /\ dec'.fired /\ ~dec'.two) =>
          /\ vel' = vel
          /\ pos' = pos
          /\ \A k \in Slots \ {di} : types'[k] = types[k]
          /\ \E r \in 1 .. Len(reactions_1body) :
               /\ reactions_1body[r].reactant = types[di]
               /\ reactions_1body[r].p1 = -1
               /\ types'[di] = reactions_1body[r].p0]_vars
  /\ [](\A i \in ActiveSlots(types), r \in 1 .. Len(reactions_1body) :
          (reactions_1body[r].reactant = types[i] /\ reactions_1body[r].p1 = -1
           /\ CanFire(reactions_1body[r]))
            => EnergyBudget(reactions_1body[r].q, vel[i] * vel[i]) >= 0)

\* ------------------- the adapter and its configuration: update_from_dict between calls
Eq2A2B == <<"2", "A", "=", "2", "B">>
EqAB == <<"A", "=", "B">>

\* the payloads of update_from_dict explored here: one substance left, with a
\* smaller radius; both substances with a larger radius; a reaction with two
\* products; a second reaction whose reactant is a decay fragment
ReloadPayloads ==
  { [substances |-> <<SubstanceItem("A", 500, 2)>>],
    [substances |-> <<SubstanceItem("A", 2000, 2), SubstanceItem("B", 2000, 1)>>],
    [reactions |-> <<ReactionItem(Eq2A2B, 2500, 10000)>>],
    [reactions |-> <<ReactionItem(Eq2AB, 2500, 2500), ReactionItem(EqAB, 2500, 2500)>>] }

\* runtime_config.update_from_dict(data) between two calls on the adapter
Configure(data) ==
  /\ physics_engine = "Adapter"
  /\ pc = "idle"
  /\ calls < MaxOps
  /\ UpdateFromDictCall(data)
  /\ calls' = calls + 1
  /\ UNCHANGED <<engVars, stepVars, simulation_running, lock, wpc, wstep, hpc>>
  /\ KeepHistory

\* PhysicsEngineAdapter.reload_config
Reload ==
  /\ AdapterCall("reload_config")
  /\ ReloadConfig
  /\ UNCHANGED <<temperature, box_size, types, pos, vel, sim_time>>

\* physics_engine = PhysicsEngineAdapter(runtime_config)
Rebuild ==
  /\ physics_engine = "Adapter"
  /\ pc = "idle"
  /\ calls < MaxOps
  /\ NewEngine(Config)
  /\ calls' = calls + 1
  /\ last' = "rebuild"
  /\ UNCHANGED <<cfgVars, simulation_running, lock, wpc, wstep, hpc, arg>>
  /\ KeepHistory

\* whether every cell index of cell_divs is an index of the preallocated head
HeadFits == Cells \subseteq DOMAIN head

\* update() with a head array shorter than cell_divs^3: the kernels are
\* compiled without bounds checks, so build_cell_list and the resolver read
\* and write outside the array; what follows is not defined by the source
RECURSIVE BuildLoopPast(_, _, _, _, _, _, _, _)
BuildLoopPast(i, h, nx, p, ty, L, M, g) ==
  IF i = NMax THEN [head |-> h, next |-> nx]
  ELSE IF ty[i] < 0 THEN BuildLoopPast(i + 1, h, nx, p, ty, L, M, g)
  ELSE LET c == CellOf(p[i], L, M)
       IN IF c \in DOMAIN h
          THEN BuildLoopPast(i + 1, [h EXCEPT ![c] = i], [nx EXCEPT ![i] = h[c]], p, ty, L, M, g)
          ELSE BuildLoopPast(i + 1, h, [nx EXCEPT ![i] = g], p, ty, L, M, g)

\* update() with a head array shorter than cell_divs^3: the thermostat and the
\* drift run as always; the compiled cell list kernels index the array without
\* a bounds check, so a read past its end yields some value g, a write past
\* its end lands outside the array, and nothing is defined from there on
UpdateOutOfBounds ==
  /\ physics_engine = "Adapter"
  /\ pc = "idle"
  /\ calls < MaxOps
  /\ active_count # 0
  /\ ~HeadFits
  /\ LET v1 == ApplyThermostat(vel, types, temperature, use_thermostat)
         p1 == UpdatePositions(pos, v1, eng_box_size)
     IN /\ vel' = v1
        /\ pos' = p1
        /\ \E g \in {-1} \cup Slots :
             LET cl == BuildLoopPast(0, [k \in DOMAIN head |-> -1],
                                     [i \in DOMAIN next_particle |-> -1],
                                     p1, types, eng_box_size, cell_divs, g)
             IN head' = cl.head /\ next_particle' = cl.next
  /\ pc' = "undefined"
  /\ calls' = calls + 1
  /\ last' = "update_begin"
  /\ UNCHANGED <<cfgVars, physics_engine, types, sim_time, active_count, eng_box_size,
                 cell_divs, reactions_2body, reactions_1body, radii, tk, tph, tloc, di,
                 simulation_running, lock, wpc, wstep, hpc, arg>>
  /\ KeepHistory

\* the seeded slots of AdapterSeeds at rest
RestSeeds(subs, L) ==
  {[pos |-> sd.pos, vel |-> [i \in Slots |-> 0]] : sd \in AdapterSeeds(subs, L)}

InitReload ==
  \E r \in RadiusChoices \cup {2000}, T \in TempChoices, th \in BOOLEAN :
    LET c == [temperature |-> T, use_thermostat |-> th,
              substances |-> SubstancesAB(r, 2, 1),
              reactions |-> <<Reaction2AB(<<2500, 2500>>)>>,
              properties_locked |-> FALSE, box_size |-> 6000,
              slice_thickness |-> MulDiv(6000, 1, 4)]
    IN /\ temperature = c.temperature
       /\ use_thermostat = c.use_thermostat
       /\ substances = c.substances
       /\ reactions = c.reactions
       /\ properties_locked = c.properties_locked
       /\ box_size = c.box_size
       /\ slice_thickness = c.slice_thickness
       /\ physics_engine = "Adapter"
       /\ \E sd \in AdapterSeeds(c.substances, c.box_size) \cup RestSeeds(c.substances, c.box_size) :
            EngineIs(EngineOf(c, sd))
       /\ pc = "idle"
       /\ tk = [k \in Cells |-> <<>>]
       /\ tph = [k \in Cells |-> "read"]
       /\ tloc = [k \in Cells |-> NoLocals]
       /\ di = 0
       /\ NoServer
       /\ NoHistory

NextReload ==
  \/ /\ calls < MaxOps
     /\ HeadFits
     /\ UpdateBegin
     /\ calls' = calls + 1
     /\ UNCHANGED <<cfgVars, simulation_running, lock, wpc, wstep, hpc, arg>>
  \/ UpdateOutOfBounds
  \/ pc = "resolve" /\ (\E c \in BusyCells : TaskRead(c)) /\ UNCHANGED <<cfgVars, srvVars>>
  \/ pc = "resolve" /\ (\E c \in BusyCells : TaskWrite(c)) /\ UNCHANGED <<cfgVars, srvVars>>
  \/ ResolveDone /\ UNCHANGED <<cfgVars, srvVars>>
  \/ DecayVisit /\ UNCHANGED <<cfgVars, srvVars>>
  \/ Finish /\ UNCHANGED <<cfgVars, srvVars>>
  \/ \E data \in ReloadPayloads : Configure(data)
  \/ Reload
  \/ Rebuild
  \/ Reset
  \/ BoxUpdate(9000)

SpecReload == InitReload /\ [][NextReload]_vars

\* C22: when update() runs, the preallocated head array has exactly
\* cell_divs^3 entries and the next array max_particles entries, so every cell
\* index of the build and of the resolver is inside the head array.
C22_HeadHoldsEveryCell ==
  (physics_engine = "Adapter" /\ last = "update_begin") =>
    (DOMAIN head = Cells /\ DOMAIN next_particle = Slots)

\* C23: after a construction or a step, every active slot holds the type id
\* of a declared substance, every product id of the compiled tables is a
\* declared substance or -1, and the counts of get_state sum to the number of
\* active slots.
C23_TypesAreDeclared ==
  (physics_engine = "Adapter" /\ pc = "idle" /\ last \in {"init", "rebuild", "update"}) =>
    /\ \A i \in ActiveSlots(types) : types[i] < Len(substances)
    /\ \A r \in 1 .. Len(reactions_2body) :
         {reactions_2body[r].p0, reactions_2body[r].p1} \subseteq -1 .. (Len(substances) - 1)
    /\ \A r \in 1 .. Len(reactions_1body) :
         {reactions_1body[r].p0, reactions_1body[r].p1} \subseteq -1 .. (Len(substances) - 1)
    /\ SumSeq(GetState.substanceCounts) = CountActive(types)

\* C27: a slot that fires a one-body channel in the decay pass is not a
\* fragment of that pass: it was active when the step began, and it was
\* active before the pass's previous visit of an active slot (dec holds the
\* pool from before that visit).
C27_FragmentNotDecayedInPass ==
  [][(last' = "decay_visit" /\ dec'.i = di /\ dec'.fired) =>
       /\ snap.types[di] >= 0
       /\ dec.i >= 0 => dec.types[di] >= 0]_vars

\* --------------------------- the event handlers alone, each in its own thread
NextHandlers ==
  \/ HandleConnect
  \/ HandleDisconnect
  \/ HandleStart
  \/ StartMeanwhile
  \/ PauseCalled
  \/ HandlePause
  \/ HandleReset
  \/ UcUpdateFromDict
  \/ UcFast
  \/ UcPreview
  \/ UcRebuild
  \/ UcBox
  \/ UcReload

SpecHandlers == InitServer /\ [][NextHandlers]_vars

\* C24: the engine is not replaced while the run flag is true: the rebuild of
\* handle_update_config is made in a state where simulation_running is
\* false, and connect and reset clear the flag in the locked block that
\* replaces the engine.
C24_RebuildOnlyWhenStopped ==
  /\ [][last' = "uc_rebuild" => ~simulation_running]_vars
  /\ [][last' \in {"connect", "reset"} => ~simulation_running']_vars

\* C26: in every state simulation_running implies properties_locked, and
\* the properties become unlocked only by handle_reset.
C26_RunningImpliesLocked ==
  /\ [](simulation_running => properties_locked)
  /\ [][(properties_locked /\ ~properties_locked') => last' = "reset"]_vars

\* an update_config with substances has gone through all its statements
\* during a run
C26_UpdateConfigDuringRun ==
  /\ simulation_running
  /\ last = "uc_reload"
  /\ HasKey(arg, "substances")

\* C21: at the return of every operation of the adapter (construction,
\* update, reset, update_box_size, reload_config) the cached active count, which
\* get_state reports as activeCount, is the number of slots with type >= 0.
C21_CachedActiveCountIsTrue ==
  (physics_engine = "Adapter" /\ pc = "idle") =>
    GetState.activeCount = CountActive(types)

\* C25: the worker does not sleep while it holds simulation_lock: at its idle
\* sleep and at its pacing sleep the lock is released.
C25_WorkerSleepsWithoutLock ==
  wpc \in {"sleep", "emit"} => lock # "worker"


\* ------------------------------------------------- the cell list as built
\* the cells whose chain holds slot i
CellsHolding(i) ==
  {c \in DOMAIN head : \E k \in 1 .. Len(ChainFrom(head[c], next_particle)) :
                          ChainFrom(head[c], next_particle)[k] = i}

\* C28: after build_cell_list every active slot is in the chain of exactly one
\* cell, the cell of its clamped coordinates, no inactive slot is in any
\* chain, and every chain runs through strictly decreasing slot indices
\* down to the sentinel -1
C28_CellListHoldsActiveSlots ==
  (physics_engine = "Adapter" /\ last = "update_begin") =>
    /\ \A i \in Slots :
         CellsHolding(i) = IF types[i] >= 0
                           THEN {CellOf(pos[i], eng_box_size, cell_divs)}
                           ELSE {}
    /\ \A c \in DOMAIN head :
         LET ch == ChainFrom(head[c], next_particle)
         IN /\ \A k \in 1 .. (Len(ch) - 1) : ch[k] > ch[k + 1]
            /\ Len(ch) > 0 => next_particle[ch[Len(ch)]] = -1

\* ------------------------------------------------ the thermostat of update()
\* the sum of the squared velocities of the active slots
ActiveVSqSum == SumOver(ActiveSlots(types), [i \in Slots |-> vel[i] * vel[i]])

\* C29: the thermostat of one update() multiplies the velocity of every
\* active slot by one common factor between 0.99 and 1.01 and leaves the
\* velocities of the inactive slots, the types and the positions (which only
\* the drift after it moves) as they were; when it is disabled or the
\* instantaneous temperature is 0 no velocity changes
C29_ThermostatScalesActiveOnly ==
  [][last' = "update_begin" =>
       /\ \E alpha \in SCALE_MIN .. SCALE_MAX :
            \A i \in Slots :
              vel'[i] = IF types[i] >= 0 THEN MulDiv(vel[i], alpha, 100) ELSE vel[i]
       /\ types' = types
       /\ pos' = [i \in Slots |-> (pos[i] + vel'[i]) % eng_box_size]
       /\ (~use_thermostat \/ ActiveVSqSum = 0) => vel' = vel]_vars

\* an update() whose thermostat met a pool with an inactive slot and an
\* instantaneous temperature so far from the target that the clamp acted
C29_ThermostatClampedOnPool ==
  /\ last = "update_begin"
  /\ use_thermostat
  /\ \E i \in Slots : types[i] < 0
  /\ LET v_sq_sum == ActiveVSqSum
         target_sum == temperature * CountActive(types) * KB3
     IN /\ v_sq_sum > 0
        /\ \/ 100 * MASS * v_sq_sum > 102 * target_sum
           \/ 100 * MASS * v_sq_sum < 98 * target_sum
\* -------------------------------------------------- the compiled tables
\* the engine's tables were compiled from the configuration as it is now
TablesCompiled ==
  physics_engine = "Adapter" /\ last \in {"init", "rebuild", "reload_config", "engine_reset"}

\* the valid reactions of the configuration with two reactants, with one
SecondOrderReactions == {k \in 1 .. Len(reactions) : IsValid(reactions[k]) /\ IsSecondOrder(reactions[k])}
FirstOrderReactions == {k \in 1 .. Len(reactions) : IsValid(reactions[k]) /\ IsFirstOrder(reactions[k])}

\* C30: for a valid reaction with two reactants and two products the
\* two-body table holds its forward row followed by its reverse row (the
\* reactants and products swapped, E_f and E_r swapped) and the one-body table
\* gets no row from it; with one product the two-body table holds the forward
\* row alone, with p1 = -1, and the one-body table holds the derived reverse
\* row (the product as reactant, the two reactants as products, E_a = E_r,
\* Q = E_f - E_r), so that the two heats sum to zero
C30_TablesOfSecondOrderReaction ==
  TablesCompiled =>
    /\ \A k \in SecondOrderReactions :
         LET rxn == reactions[k]
             r == rxn.reactant_types
             p == rxn.product_types
         IN IF Len(p) = 2
            THEN \E j \in 1 .. (Len(reactions_2body) - 1) :
                   /\ reactions_2body[j] =
                        [r0 |-> r[1], r1 |-> r[2], p0 |-> p[1], p1 |-> p[2],
                         ea_forward |-> rxn.ea_forward, ea_reverse |-> rxn.ea_reverse]
                   /\ reactions_2body[j + 1] =
                        [r0 |-> p[1], r1 |-> p[2], p0 |-> r[1], p1 |-> r[2],
                         ea_forward |-> rxn.ea_reverse, ea_reverse |-> rxn.ea_forward]
            ELSE \E j \in 1 .. Len(reactions_2body), m \in 1 .. Len(reactions_1body) :
                   /\ reactions_2body[j] =
                        [r0 |-> r[1], r1 |-> r[2], p0 |-> p[1], p1 |-> -1,
                         ea_forward |-> rxn.ea_forward, ea_reverse |-> rxn.ea_reverse]
                   /\ reactions_1body[m].reactant = p[1]
                   /\ reactions_1body[m].p0 = r[1]
                   /\ reactions_1body[m].p1 = r[2]
                   /\ reactions_1body[m].ea = rxn.ea_reverse
                   /\ reactions_1body[m].q = rxn.ea_forward - rxn.ea_reverse
                   /\ (reactions_2body[j].ea_reverse - reactions_2body[j].ea_forward)
                        + reactions_1body[m].q = 0
    /\ Len(reactions_2body) =
         SumOver(SecondOrderReactions,
                 [k \in 1 .. Len(reactions) |-> Len(reactions[k].product_types)])
    /\ Len(reactions_1body) =
         SumOver(FirstOrderReactions,
                 [k \in 1 .. Len(reactions) |->
                    IF Len(reactions[k].product_types) = 1 THEN 2 ELSE 1])
         + Cardinality({k \in SecondOrderReactions : Len(reactions[k].product_types) = 1})

\* tables compiled from a configuration that holds a reaction with two
\* reactants and two products
C30_TwoProductReactionCompiled ==
  /\ TablesCompiled
  /\ \E k \in SecondOrderReactions : Len(reactions[k].product_types) = 2
  /\ Len(reactions_2body) = 2

====
